---- MODULE Spec2Model ----
(***************************************************************************)
(* A model of the DHT core of OpenBazaar (node/dht.py): the peer table,   *)
(* the iterative lookup engine, the local value store and the maintenance *)
(* sweep.  Every node is identified by its guid; each state variable is a *)
(* function from the node's guid to that node's DHT field.  Handlers are   *)
(* operators on a record d holding one node's fields (see D and Commit).  *)
(***************************************************************************)
EXTENDS Integers, Sequences, FiniteSets, TLC

VARIABLES knownNodes, searches, activePeers, routingTable, dataStore,
          handshakes, sent, delivered, received, cbLog, nextFindID, terminal,
          event, now, phase

vars == <<knownNodes, searches, activePeers, routingTable, dataStore,
          handshakes, sent, delivered, received, cbLog, nextFindID, terminal,
          event, now, phase>>

(***************************************************************************)
(* Bounds of the model.                                                    *)
(***************************************************************************)
MaxGuid == 4
MaxSearches == 1
MaxFound == 2
MaxStartup == 4
MaxJoined == 3

(***************************************************************************)
(* Program constants.                                                      *)
(***************************************************************************)
k == 20
alpha == 3
P2PPort == 12345
dataExpireTimeout == 86400
replicateInterval == 3600
\* the term added to a stored value's age by the republish sweep
AgeSkew == 500000

GUIDS == 0..MaxGuid
N == MaxGuid + 1

(***************************************************************************)
(* Identity attributes.  In the program a guid, a host name, a public key  *)
(* and a nickname are strings that never coincide; here they are integers  *)
(* of disjoint ranges, so that tuples of them compare as in the program.   *)
(***************************************************************************)
IpOf(i) == N + i
EmptyNick == 3 * N
NickOf(g) == 3 * N + 1 + g
PubOf(g) == 5 * N + g
UriBase == 7 * N
\* 'tcp://%s:%s' % (ip, port)
MkUri(ip, port) == UriBase + (ip - N)
UriOf(g) == MkUri(IpOf(g), P2PPort)
AltUriOf(g) == MkUri(IpOf(N + g), P2PPort)
AltPubOf(g) == PubOf(N + g)
\* urlparse(uri).hostname, urlparse(uri).port
hostname(uri) == N + (uri - UriBase)
port(uri) == P2PPort

None == 0 - 1
NoPeer == [guid |-> None, address |-> None, pub |-> None, nickname |-> None]
Peer(g, uri, pub, nick) == [guid |-> g, address |-> uri, pub |-> pub, nickname |-> nick]
CanonPeer(g) == Peer(g, UriOf(g), PubOf(g), NickOf(g))

(***************************************************************************)
(* Sequence helpers.                                                       *)
(***************************************************************************)
InSeq(x, s) == \E i \in DOMAIN s : s[i] = x
RemoveAt(s, i) == SubSeq(s, 1, i - 1) \o SubSeq(s, i + 1, Len(s))
MinOf(S) == CHOOSE x \in S : \A y \in S : x <= y
Range(s) == {s[i] : i \in DOMAIN s}

\* The j least elements of S, ascending; all of S, ascending.
RECURSIVE FirstPeers(_, _)
FirstPeers(S, j) ==
  IF j = 0 \/ S = {} THEN <<>>
  ELSE <<MinOf(S)>> \o FirstPeers(S \ {MinOf(S)}, j - 1)

Ascending(S) == FirstPeers(S, Cardinality(S))

\* list.sort(cmp) on the keys keys[i] of items[i]: a stable sort.
StableSort(items, keys) ==
  LET n == Len(items)
      pos(i) == Cardinality({j \in 1..n : keys[j] < keys[i]})
                + Cardinality({j \in 1..(i - 1) : keys[j] = keys[i]}) + 1
  IN [p \in 1..n |-> items[CHOOSE i \in 1..n : pos(i) = p]]

\* "for idx, x in enumerate(lst): if x == v: del lst[idx]": the element that
\* slides into the freed slot is skipped by the running index.
RECURSIVE DelWhileEnumerating(_, _, _)
DelWhileEnumerating(lst, i, v) ==
  IF i > Len(lst) THEN lst
  ELSE IF lst[i] = v THEN DelWhileEnumerating(RemoveAt(lst, i), i + 1, v)
  ELSE DelWhileEnumerating(lst, i + 1, v)

(***************************************************************************)
(* DHT.dedupe: keeps the first item of each frozenset of components.       *)
(***************************************************************************)
frozenset(item) == {item[i] : i \in DOMAIN item}

RECURSIVE dedupeLoop(_, _, _, _)
dedupeLoop(lst, i, seen, result) ==
  IF i > Len(lst) THEN result
  ELSE LET fs == frozenset(lst[i])
       IN IF fs \notin seen
          THEN dedupeLoop(lst, i + 1, seen \cup {fs}, Append(result, lst[i]))
          ELSE dedupeLoop(lst, i + 1, seen, result)

dedupe(lst) == dedupeLoop(lst, 1, {}, <<>>)

(***************************************************************************)
(* The routing table (routingtable.OptimizedTreeRoutingTable): a sequence  *)
(* of contacts, least recently seen first.  With at most MaxGuid contacts, *)
(* fewer than k, no bucket ever fills, so the buckets are not told apart.  *)
(***************************************************************************)
RECURSIVE xor(_, _)
xor(a, b) ==
  IF a = 0 THEN b
  ELSE IF b = 0 THEN a
  ELSE 2 * xor(a \div 2, b \div 2) + (((a % 2) + (b % 2)) % 2)

distance(a, b) == xor(a, b)

getContact(rt, guid) ==
  IF \E i \in DOMAIN rt : rt[i].guid = guid
  THEN rt[CHOOSE i \in DOMAIN rt : rt[i].guid = guid]
  ELSE NoPeer

removeContact(rt, guid) == SelectSeq(rt, LAMBDA c : c.guid # guid)

\* A table that takes any contact, one with the owner's guid included.
addContact_any(own, rt, contact) ==
  IF contact.guid = None THEN rt
  ELSE Append(removeContact(rt, contact.guid), contact)

addContact(own, rt, contact) ==
  IF contact.guid = own \/ contact.guid = None THEN rt
  ELSE Append(removeContact(rt, contact.guid), contact)

findCloseNodes(rt, key, n, exclude) ==
  LET cs == SelectSeq(rt, LAMBDA c : c.guid # exclude)
      sorted == StableSort(cs, [i \in DOMAIN cs |-> distance(cs[i].guid, key)])
  IN SubSeq(sorted, 1, IF Len(sorted) < n THEN Len(sorted) ELSE n)

(***************************************************************************)
(* One node's fields as a record, and its write-back.                      *)
(***************************************************************************)
D(n) == [guid |-> n,
         knownNodes |-> knownNodes[n],
         searches |-> searches[n],
         activePeers |-> activePeers[n],
         routingTable |-> routingTable[n],
         dataStore |-> dataStore[n],
         handshakes |-> handshakes[n],
         sent |-> sent[n],
         delivered |-> delivered[n],
         cbLog |-> cbLog[n],
         nextFindID |-> nextFindID[n],
         now |-> now,
         raised |-> FALSE]

Commit(n, d) ==
  /\ knownNodes' = [knownNodes EXCEPT ![n] = d.knownNodes]
  /\ searches' = [searches EXCEPT ![n] = d.searches]
  /\ activePeers' = [activePeers EXCEPT ![n] = d.activePeers]
  /\ routingTable' = [routingTable EXCEPT ![n] = d.routingTable]
  /\ dataStore' = [dataStore EXCEPT ![n] = d.dataStore]
  /\ handshakes' = [handshakes EXCEPT ![n] = d.handshakes]
  /\ sent' = [sent EXCEPT ![n] = d.sent]
  /\ delivered' = [delivered EXCEPT ![n] = d.delivered]
  /\ cbLog' = [cbLog EXCEPT ![n] = d.cbLog]
  /\ nextFindID' = [nextFindID EXCEPT ![n] = d.nextFindID]

\* peer.send(msg): the message joins the log of what this node has sent.
send(d, to, msg) == [d EXCEPT !.sent = Append(@, [msg EXCEPT !.to = to])]

\* The findNode probes of search findID that no response has answered yet.
Outstanding(d, findID) ==
  {i \in DOMAIN d.sent : /\ d.sent[i].type = "findNode"
                         /\ d.sent[i].findID = findID
                         /\ i \notin d.delivered}

\* Those of them that the search's latest iteration sent.
OutstandingOfIteration(d, findID) ==
  {i \in Outstanding(d, findID) :
     \A j \in DOMAIN d.searches :
        d.searches[j].findID = findID => i > d.searches[j].iterMark}

(***************************************************************************)
(* DHT.add_known_node                                                      *)
(***************************************************************************)
add_known_node(d, node) ==
  IF ~InSeq(node, d.knownNodes)
  THEN [d EXCEPT !.knownNodes = Append(@, node)]
  ELSE d

(***************************************************************************)
(* DHT.add_peer.  A new peer's handshake is left pending in handshakes;    *)
(* HandshakeComplete runs its callback cb.                                 *)
(***************************************************************************)
BagAdd(b, x) ==
  IF x \in DOMAIN b THEN [b EXCEPT ![x] = @ + 1]
  ELSE [y \in DOMAIN b \cup {x} |-> IF y = x THEN 1 ELSE b[y]]

BagRemove(b, x) ==
  IF b[x] > 1 THEN [b EXCEPT ![x] = @ - 1]
  ELSE [y \in DOMAIN b \ {x} |-> b[y]]

EmptyBag == [x \in {} |-> 0]

\* An add_peer that leaves a partially matching entry as it is.
add_peer_keeping(d, uri, pubkey, guid, nickname) ==
  IF \E i \in DOMAIN d.activePeers :
        d.activePeers[i].guid = guid \/ d.activePeers[i].address = uri
  THEN d
  ELSE [d EXCEPT !.handshakes =
          BagAdd(@, [peer |-> Peer(guid, uri, pubkey, nickname), cb |-> TRUE])]

add_peer(d, uri, pubkey, guid, nickname) ==
  LET ap == d.activePeers
      peer_tuple == <<uri, pubkey, guid, nickname>>
      exact(i) == <<ap[i].pub, ap[i].address, ap[i].guid, ap[i].nickname>> = peer_tuple
      partial(i) == ap[i].guid = guid \/ ap[i].address = uri
      hits == {i \in DOMAIN ap : exact(i) \/ partial(i)}
  IN IF hits # {}
     THEN LET idx == MinOf(hits)
              peer == ap[idx]
          IN IF exact(idx)
             THEN LET old_peer == getContact(d.routingTable, guid)
                  IN IF old_peer # NoPeer /\ (old_peer.address # uri \/ old_peer.pub # pubkey)
                     THEN [d EXCEPT !.routingTable =
                             addContact(d.guid, removeContact(@, guid), peer)]
                     ELSE d
             ELSE LET upd == Peer(guid, uri, pubkey, nickname)
                  IN [d EXCEPT !.activePeers[idx] = upd,
                               !.routingTable =
                                  addContact(d.guid, removeContact(@, guid), upd)]
     ELSE [d EXCEPT !.handshakes =
             BagAdd(@, [peer |-> Peer(guid, uri, pubkey, nickname), cb |-> TRUE])]

\* DHT.remove_active_peer: "del self._activePeers[idx]" inside the enumeration
\* of the list, which then goes on at idx + 1 of the shortened list.
remove_active_peer(d, uri) ==
  LET RECURSIVE loop(_, _)
      loop(lst, idx) ==
        IF idx > Len(lst) THEN lst
        ELSE IF lst[idx].address = uri THEN loop(RemoveAt(lst, idx), idx + 1)
        ELSE loop(lst, idx + 1)
  IN [d EXCEPT !.activePeers = loop(@, 1)]

\* The callback cb of add_peer, run when new_peer's handshake completes.
add_peer_cb(d, new_peer) ==
  [d EXCEPT !.routingTable = addContact(d.guid, removeContact(@, new_peer.guid), new_peer),
            !.knownNodes = Append(@, <<hostname(new_peer.address),
                                       port(new_peer.address), new_peer.guid>>)]

\* The transport's part of a completed handshake: the session's peer joins
\* the peer table (a set of peers).
registerActivePeer(d, new_peer) ==
  IF InSeq(new_peer, d.activePeers) THEN d
  ELSE [d EXCEPT !.activePeers = Append(@, new_peer)]

(***************************************************************************)
(* Stored values.  A value is an opaque string, a JSON string carrying one *)
(* index operation, or a decoded index {'notaries': [...]} or              *)
(* {'listings': [...]}.                                                    *)
(***************************************************************************)
NoValue == [kind |-> "none", op |-> "", elem |-> 0, items |-> <<>>]
Opaque(i) == [kind |-> "str", op |-> "", elem |-> i, items |-> <<>>]
JsonCmd(op, e) == [kind |-> "json", op |-> op, elem |-> e, items |-> <<>>]
Index(field, items) == [kind |-> "dict", op |-> field, elem |-> 0, items |-> items]

\* The data store (datastore.SqliteDataStore): put, get with None for a
\* missing key, del, keys.
setItem(ds, key, value, lastPublished, originallyPublished, originalPublisherID) ==
  [x \in DOMAIN ds \cup {key} |->
     IF x = key
     THEN [value |-> value, lastPublished |-> lastPublished,
           originallyPublished |-> originallyPublished,
           originalPublisherID |-> originalPublisherID]
     ELSE ds[x]]

getItem(ds, key) == IF key \in DOMAIN ds THEN ds[key].value ELSE NoValue
delItem(ds, key) == [x \in DOMAIN ds \ {key} |-> ds[x]]
EmptyStore == [x \in {} |-> 0]

(***************************************************************************)
(* Overlay messages.  localCopy is a history field, not on the wire: what  *)
(* the sender's own store held under the message's key when a store        *)
(* message was handed to the transport.                                    *)
(***************************************************************************)
BaseMsg == [type |-> "", to |-> None, senderGUID |-> None, senderNick |-> None,
            uri |-> None, pubkey |-> None, key |-> None, findValue |-> FALSE,
            findID |-> 0, kind |-> "", foundKey |-> NoValue, foundNode |-> <<>>,
            foundNodes |-> <<>>, value |-> NoValue,
            originalPublisherID |-> None, age |-> 0, localCopy |-> NoValue]

\* protocol.proto_store
proto_store(key, value, originalPublisherID, age) ==
  [BaseMsg EXCEPT !.type = "store", !.key = key, !.value = value,
                  !.originalPublisherID = originalPublisherID, !.age = age]

(***************************************************************************)
(* DHT.storeKeyValue                                                       *)
(***************************************************************************)
IndexField(op) ==
  IF op \in {"notary_index_add", "notary_index_remove"} THEN "notaries" ELSE "listings"

\* The try block with an add that replaces the stored index by one holding
\* the added element alone.
storeKeyValue_merge_replacing(ds, key, value) ==
  IF value.kind # "json" THEN [ret |-> FALSE, value |-> value]
  ELSE LET existing_index == getItem(ds, key)
           field == IndexField(value.op)
           readable == existing_index.kind = "dict" /\ existing_index.op = field
       IN IF value.op \in {"notary_index_add", "keyword_index_add"}
          THEN [ret |-> FALSE, value |-> Index(field, <<value.elem>>)]
          ELSE IF existing_index # NoValue /\ readable
                  /\ InSeq(value.elem, existing_index.items)
          THEN LET i == MinOf({j \in DOMAIN existing_index.items :
                                 existing_index.items[j] = value.elem})
               IN [ret |-> FALSE,
                   value |-> Index(field, RemoveAt(existing_index.items, i))]
          ELSE IF existing_index # NoValue /\ ~readable
          THEN [ret |-> FALSE, value |-> value]
          ELSE [ret |-> TRUE, value |-> value]

\* The try block with a remove that writes the index back whether or not it
\* held the element.
storeKeyValue_merge_writing_back(ds, key, value) ==
  IF value.kind # "json" THEN [ret |-> FALSE, value |-> value]
  ELSE LET existing_index == getItem(ds, key)
           field == IndexField(value.op)
           readable == existing_index.kind = "dict" /\ existing_index.op = field
       IN IF existing_index = NoValue
          THEN IF value.op \in {"notary_index_add", "keyword_index_add"}
               THEN [ret |-> FALSE, value |-> Index(field, <<value.elem>>)]
               ELSE [ret |-> TRUE, value |-> value]
          ELSE IF ~readable THEN [ret |-> FALSE, value |-> value]
          ELSE IF value.op \in {"notary_index_add", "keyword_index_add"}
          THEN IF ~InSeq(value.elem, existing_index.items)
               THEN [ret |-> FALSE,
                     value |-> Index(field, Append(existing_index.items, value.elem))]
               ELSE [ret |-> FALSE, value |-> existing_index]
          ELSE [ret |-> FALSE,
                value |-> Index(field, SelectSeq(existing_index.items,
                                                 LAMBDA x : x # value.elem))]

\* The try block: [ret |-> the function returned, value |-> the value to store].
\* json.loads raises for anything but a JSON string, and indexing the stored
\* value by the index's field raises unless it is an index of that field; the
\* except clause then leaves value as it was.
storeKeyValue_merge(ds, key, value) ==
  IF value.kind # "json" THEN [ret |-> FALSE, value |-> value]
  ELSE LET existing_index == getItem(ds, key)
           field == IndexField(value.op)
           readable == existing_index.kind = "dict" /\ existing_index.op = field
       IN IF value.op \in {"notary_index_add", "keyword_index_add"}
          THEN IF existing_index # NoValue
               THEN IF ~readable THEN [ret |-> FALSE, value |-> value]
                    ELSE IF ~InSeq(value.elem, existing_index.items)
                    THEN [ret |-> FALSE,
                          value |-> Index(field, Append(existing_index.items, value.elem))]
                    ELSE [ret |-> FALSE, value |-> existing_index]
               ELSE [ret |-> FALSE, value |-> Index(field, <<value.elem>>)]
          ELSE IF existing_index # NoValue
               THEN IF ~readable THEN [ret |-> FALSE, value |-> value]
                    ELSE IF InSeq(value.elem, existing_index.items)
                    THEN LET i == MinOf({j \in DOMAIN existing_index.items :
                                           existing_index.items[j] = value.elem})
                         IN [ret |-> FALSE,
                             value |-> Index(field, RemoveAt(existing_index.items, i))]
                    ELSE [ret |-> TRUE, value |-> value]
               ELSE [ret |-> TRUE, value |-> value]

\* The loop with the store message left out for a node that had no contact
\* in the routing table.
RECURSIVE storeKeyValue_send_known(_, _, _, _)
storeKeyValue_send_known(d, nodes, i, msg) ==
  IF i > Len(nodes) THEN d
  ELSE LET node == nodes[i]
           uri == MkUri(node[1], node[2])
           guid == node[3]
           peer == getContact(d.routingTable, guid)
       IN IF guid = d.guid THEN d
          ELSE IF peer = NoPeer
          THEN storeKeyValue_send_known(
                 [d EXCEPT !.handshakes =
                    BagAdd(@, [peer |-> Peer(guid, uri, None, None), cb |-> FALSE])],
                 nodes, i + 1, msg)
          ELSE storeKeyValue_send_known(
                 send(d, guid, [msg EXCEPT !.localCopy = getItem(d.dataStore, msg.key)]),
                 nodes, i + 1, msg)

\* "for node in nodes": a store message to every node up to the local one.
RECURSIVE storeKeyValue_send(_, _, _, _)
storeKeyValue_send(d, nodes, i, msg) ==
  IF i > Len(nodes) THEN d
  ELSE LET node == nodes[i]
           uri == MkUri(node[1], node[2])
           guid == node[3]
           peer == getContact(d.routingTable, guid)
       IN IF guid = d.guid THEN d
          ELSE LET d1 == IF peer = NoPeer
                         THEN [d EXCEPT !.handshakes =
                                 BagAdd(@, [peer |-> Peer(guid, uri, None, None),
                                            cb |-> FALSE])]
                         ELSE d
                   m == [msg EXCEPT !.localCopy = getItem(d.dataStore, msg.key)]
               IN storeKeyValue_send(send(d1, guid, m), nodes, i + 1, msg)

\* storeKeyValue with the loop of store messages ahead of the local write.
storeKeyValue_sending_first(d, nodes, key, value, originalPublisherID, age) ==
  LET m == storeKeyValue_merge(d.dataStore, key, value)
  IN IF m.ret THEN d
     ELSE LET originallyPublished == d.now - age
              d1 == storeKeyValue_send(d, nodes, 1,
                                       proto_store(key, m.value, originalPublisherID, age))
          IN [d1 EXCEPT !.dataStore = setItem(@, key, m.value, d.now,
                                              originallyPublished,
                                              originalPublisherID)]

storeKeyValue(d, nodes, key, value, originalPublisherID, age) ==
  LET m == storeKeyValue_merge(d.dataStore, key, value)
  IN IF m.ret THEN d
     ELSE LET originallyPublished == d.now - age
              d1 == [d EXCEPT !.dataStore = setItem(@, key, m.value, d.now,
                                                    originallyPublished,
                                                    originalPublisherID)]
          IN storeKeyValue_send(d1, nodes, 1,
                                proto_store(key, m.value, originalPublisherID, age))

(***************************************************************************)
(* Callbacks of a search: none, the caller's (its calls are logged in      *)
(* cbLog), or the lambda of iterativeStore, which runs storeKeyValue.      *)
(***************************************************************************)
NoCallback == [kind |-> "none", key |-> None, value |-> NoValue,
               originalPublisherID |-> None, age |-> 0]
UserCallback == [NoCallback EXCEPT !.kind = "user"]
StoreCallback(key, value, originalPublisherID, age) ==
  [kind |-> "store", key |-> key, value |-> value,
   originalPublisherID |-> originalPublisherID, age |-> age]

\* callback(arg).  what is "value", "node" or "shortlist".  storeKeyValue
\* handed a value or a node tuple instead of a node list writes locally and
\* then fails on the first element it indexes: raised tells the caller.
callback(d, findID, cb, what, arg) ==
  LET entry == [findID |-> findID, what |-> what, arg |-> arg,
                outstanding |-> Cardinality(OutstandingOfIteration(d, findID))]
      d1 == [d EXCEPT !.cbLog = Append(@, entry)]
  IN IF cb.kind # "store" THEN d1
     ELSE IF what = "shortlist"
     THEN storeKeyValue(d1, arg, cb.key, cb.value, cb.originalPublisherID, cb.age)
     ELSE [storeKeyValue(d1, <<>>, cb.key, cb.value, cb.originalPublisherID, cb.age)
             EXCEPT !.raised = TRUE]

(***************************************************************************)
(* DHTSearch                                                               *)
(***************************************************************************)
DHTSearch(findID, key, call, cb) ==
  [findID |-> findID, key |-> key, call |-> call, callback |-> cb,
   shortlist |-> <<>>, active_probes |-> <<>>, already_contacted |-> <<>>,
   previous_closest_node |-> <<>>, slowNodeCount |-> 0, contactedNow |-> 0,
   prevShortlistLength |-> 0,
   \* history: how many messages the node had sent when the search's latest
   \* iteration began
   iterMark |-> 0]

RECURSIVE add_to_shortlist(_, _, _)
add_to_shortlist(shortlist, additions, i) ==
  IF i > Len(additions) THEN shortlist
  ELSE add_to_shortlist(IF ~InSeq(additions[i], shortlist)
                        THEN Append(shortlist, additions[i]) ELSE shortlist,
                        additions, i + 1)

\* The index in d.searches of the search a loop over _searches ends with.
SearchIndex(d, findID) ==
  LET hits == {i \in DOMAIN d.searches : d.searches[i].findID = findID}
  IN IF hits = {} THEN 0 ELSE CHOOSE i \in hits : \A j \in hits : j <= i

activeSearchExists(d, findID) == \E i \in DOMAIN d.searches : d.searches[i].findID = findID

(***************************************************************************)
(* DHT.extendShortlist                                                     *)
(***************************************************************************)
RECURSIVE extendShortlist_loop(_, _, _, _)
extendShortlist_loop(d, si, foundNodes, i) ==
  IF i > Len(foundNodes) THEN d
  ELSE LET node == foundNodes[i]
           node_guid == node[1]
           node_uri == node[2]
           node_pubkey == node[3]
           node_nick == node[4]
           t == <<hostname(node_uri), port(node_uri), node_guid, node_nick>>
           d1 == IF ~InSeq(t, d.searches[si].shortlist)
                 THEN [d EXCEPT !.searches[si].shortlist = add_to_shortlist(@, <<t>>, 1)]
                 ELSE d
           d2 == IF node_guid = d.guid THEN d1
                 ELSE add_peer(d1, node_uri, node_pubkey, node_guid, node_nick)
       IN extendShortlist_loop(d2, si, foundNodes, i + 1)

extendShortlist(d, findID, foundNodes) ==
  LET si == SearchIndex(d, findID)
  IN IF si = 0 THEN d ELSE extendShortlist_loop(d, si, foundNodes, 1)

(***************************************************************************)
(* DHT._searchIteration                                                    *)
(***************************************************************************)
findNodeMsg(d, s, findValue) ==
  [BaseMsg EXCEPT !.type = "findNode", !.uri = UriOf(d.guid), !.senderGUID = d.guid,
                  !.key = s.key, !.findValue = findValue,
                  !.senderNick = NickOf(d.guid), !.findID = s.findID,
                  !.pubkey = PubOf(d.guid)]

\* The probing loop without "new_search._already_contacted.append(node)".
RECURSIVE searchIteration_loop_unrecorded(_, _, _, _)
searchIteration_loop_unrecorded(d, si, i, findValue) ==
  LET s == d.searches[si]
  IN IF i > Len(s.shortlist) THEN d
     ELSE LET node == s.shortlist[i]
              contact == getContact(d.routingTable, node[3])
              probe == ~InSeq(node, s.already_contacted) /\ node[3] # d.guid
              d1 == IF probe
                    THEN [d EXCEPT !.searches[si].active_probes = Append(@, node)]
                    ELSE d
              d2 == IF probe /\ contact # NoPeer
                    THEN [send(d1, contact.guid, findNodeMsg(d1, s, findValue))
                            EXCEPT !.searches[si].contactedNow = @ + 1]
                    ELSE d1
          IN IF d2.searches[si].contactedNow = alpha THEN d2
             ELSE searchIteration_loop_unrecorded(d2, si, i + 1, findValue)

\* "for node in new_search._shortlist": the probing loop.
RECURSIVE searchIteration_loop(_, _, _, _)
searchIteration_loop(d, si, i, findValue) ==
  LET s == d.searches[si]
  IN IF i > Len(s.shortlist) THEN d
     ELSE LET node == s.shortlist[i]
              contact == getContact(d.routingTable, node[3])
              probe == ~InSeq(node, s.already_contacted) /\ node[3] # d.guid
              d1 == IF probe
                    THEN [d EXCEPT !.searches[si].active_probes = Append(@, node),
                                   !.searches[si].already_contacted = Append(@, node)]
                    ELSE d
              d2 == IF probe /\ contact # NoPeer
                    THEN [send(d1, contact.guid, findNodeMsg(d1, s, findValue))
                            EXCEPT !.searches[si].contactedNow = @ + 1]
                    ELSE d1
          IN IF d2.searches[si].contactedNow = alpha THEN d2
             ELSE searchIteration_loop(d2, si, i + 1, findValue)

\* _searchIteration without "new_search._shortlist.sort(...)".
searchIteration_unsorted(d, si, findValue) ==
  LET key == d.searches[si].key
      ap == StableSort(d.activePeers,
                       [i \in DOMAIN d.activePeers |-> distance(d.activePeers[i].guid, key)])
      sl0 == d.searches[si].shortlist
      sl1 == dedupe(sl0)
      sl == IF Len(sl0) > 1 THEN sl1 ELSE sl0
      d1 == [d EXCEPT !.activePeers = ap,
                      !.searches[si].iterMark = Len(d.sent),
                      !.searches[si].slowNodeCount = Len(d.searches[si].active_probes),
                      !.searches[si].previous_closest_node =
                         IF Len(ap) > 0
                         THEN <<hostname(ap[1].address), port(ap[1].address), ap[1].guid>>
                         ELSE @,
                      !.searches[si].shortlist = sl,
                      !.searches[si].prevShortlistLength =
                         IF Len(sl0) > 1 THEN Len(sl) ELSE @]
  IN IF ~activeSearchExists(d1, d1.searches[si].findID) THEN d1
     ELSE searchIteration_loop(d1, si, 1, findValue)

searchIteration(d, si, findValue) ==
  LET key == d.searches[si].key
      ap == StableSort(d.activePeers,
                       [i \in DOMAIN d.activePeers |-> distance(d.activePeers[i].guid, key)])
      sl0 == d.searches[si].shortlist
      sl1 == dedupe(sl0)
      sl == IF Len(sl0) > 1
            THEN StableSort(sl1, [i \in DOMAIN sl1 |-> distance(sl1[i][3], key)])
            ELSE sl0
      d1 == [d EXCEPT !.activePeers = ap,
                      !.searches[si].iterMark = Len(d.sent),
                      !.searches[si].slowNodeCount = Len(d.searches[si].active_probes),
                      !.searches[si].previous_closest_node =
                         IF Len(ap) > 0
                         THEN <<hostname(ap[1].address), port(ap[1].address), ap[1].guid>>
                         ELSE @,
                      !.searches[si].shortlist = sl,
                      !.searches[si].prevShortlistLength =
                         IF Len(sl0) > 1 THEN Len(sl) ELSE @]
  IN IF ~activeSearchExists(d1, d1.searches[si].findID) THEN d1
     ELSE searchIteration_loop(d1, si, 1, findValue)

(***************************************************************************)
(* DHT._iterativeFind.  startupShortlist is <<>> where the program passes  *)
(* None or [].                                                             *)
(***************************************************************************)
iterativeFind(d, key, startupShortlist, call, cb) ==
  LET new_search == DHTSearch(d.nextFindID, key, call, cb)
      d1 == [d EXCEPT !.searches = Append(@, new_search), !.nextFindID = @ + 1]
      si == Len(d1.searches)
      findValue == call # "findNode"
  IN IF ~findValue /\ key = d.guid THEN d1
     ELSE IF ~findValue /\ \E i \in DOMAIN d.activePeers : d.activePeers[i].guid = key
     THEN d1
     ELSE IF startupShortlist = <<>>
     THEN LET closeNodes == findCloseNodes(d.routingTable, key, alpha, d.guid)
              shortlist == [i \in DOMAIN closeNodes |->
                              <<hostname(closeNodes[i].address),
                                port(closeNodes[i].address), closeNodes[i].guid>>]
              d2 == [d1 EXCEPT !.searches[si].shortlist = add_to_shortlist(@, shortlist, 1)]
              d3 == IF Len(d2.searches[si].shortlist) = 0 /\ cb.kind # "none"
                    THEN callback(d2, new_search.findID, cb, "shortlist", <<>>)
                    ELSE d2
          IN IF Len(d2.searches[si].shortlist) = 0 /\ cb.kind = "none" THEN d2
             ELSE searchIteration(d3, si, findValue)
     ELSE searchIteration([d1 EXCEPT !.searches[si].shortlist = startupShortlist],
                          si, findValue)

iterativeFindNode(d, key, cb) == iterativeFind(d, key, <<>>, "findNode", cb)
iterativeFindValue(d, key, cb) == iterativeFind(d, key, <<>>, "findValue", cb)

(***************************************************************************)
(* DHT.iterativeStore                                                      *)
(***************************************************************************)
Truthy(value) == value # NoValue

iterativeStore(d, key, value_to_store, originalPublisherID, age) ==
  LET publisher == IF originalPublisherID = None THEN d.guid ELSE originalPublisherID
  IN IF Truthy(value_to_store)
     THEN iterativeFindNode(d, key, StoreCallback(key, value_to_store, publisher, age))
     ELSE d

(***************************************************************************)
(* DHT.on_findNodeResponse                                                 *)
(***************************************************************************)
on_findNodeResponse_peers(d, msg) ==
  [d EXCEPT !.activePeers =
     [i \in DOMAIN @ |-> IF @[i].guid = msg.senderGUID
                         THEN [@[i] EXCEPT !.nickname = msg.senderNick,
                                           !.pub = msg.pubkey]
                         ELSE @[i]]]

on_findNodeResponse_foundKey(d, msg) ==
  LET si == SearchIndex(d, msg.findID)
  IN IF si = 0 THEN d
     ELSE IF d.searches[si].callback.kind = "none" THEN [d EXCEPT !.raised = TRUE]
     ELSE LET d1 == callback(d, msg.findID, d.searches[si].callback, "value",
                             msg.foundKey)
          IN IF d1.raised THEN d1
             ELSE [d1 EXCEPT !.searches = RemoveAt(@, si)]

\* The foundNode branch without "del self._searches[idx]".
on_findNodeResponse_foundNode_keeping(d, msg) ==
  LET named == msg.foundNode[3] # d.guid
      foundNode == IF named /\ Len(msg.foundNode) = 3
                   THEN Append(msg.foundNode, EmptyNick)
                   ELSE msg.foundNode
      d1 == IF named
            THEN add_peer(d, foundNode[2], foundNode[3], foundNode[1], foundNode[4])
            ELSE d
      si == SearchIndex(d1, msg.findID)
  IN IF si = 0 \/ d1.searches[si].callback.kind = "none" THEN d1
     ELSE IF Len(foundNode) < 4 THEN [d1 EXCEPT !.raised = TRUE]
     ELSE callback(d1, msg.findID, d1.searches[si].callback, "node",
                   <<foundNode[3], foundNode[2], foundNode[1], foundNode[4]>>)

on_findNodeResponse_foundNode(d, msg) ==
  LET named == msg.foundNode[3] # d.guid
      foundNode == IF named /\ Len(msg.foundNode) = 3
                   THEN Append(msg.foundNode, EmptyNick)
                   ELSE msg.foundNode
      d1 == IF named
            THEN add_peer(d, foundNode[2], foundNode[3], foundNode[1], foundNode[4])
            ELSE d
      si == SearchIndex(d1, msg.findID)
  IN IF si = 0 THEN d1
     ELSE IF d1.searches[si].callback.kind = "none"
     THEN [d1 EXCEPT !.searches = RemoveAt(@, si)]
     ELSE IF Len(foundNode) < 4 THEN [d1 EXCEPT !.raised = TRUE]
     ELSE LET d2 == callback(d1, msg.findID, d1.searches[si].callback, "node",
                             <<foundNode[3], foundNode[2], foundNode[1], foundNode[4]>>)
          IN IF d2.raised THEN d2
             ELSE [d2 EXCEPT !.searches = RemoveAt(@, si)]

RECURSIVE on_findNodeResponse_extend(_, _, _)
on_findNodeResponse_extend(d, msg, i) ==
  IF i > Len(msg.foundNodes) THEN d
  ELSE LET node == msg.foundNodes[i]
           d1 == IF node[1] # d.guid /\ node[3] # PubOf(d.guid) /\ node[2] # UriOf(d.guid)
                 THEN extendShortlist(d, msg.findID, <<node>>)
                 ELSE d
       IN on_findNodeResponse_extend(d1, msg, i + 1)

on_findNodeResponse_foundNodes(d, msg) ==
  LET si == SearchIndex(d, msg.findID)
  IN IF si = 0 THEN d
     ELSE LET shortlist_length == Len(d.searches[si].shortlist)
              d1 == on_findNodeResponse_extend(d, msg, 1)
              search_tuple == <<hostname(msg.uri), port(msg.uri), msg.senderGUID>>
              d2 == [d1 EXCEPT
                       !.searches[si].active_probes = DelWhileEnumerating(@, 1, search_tuple),
                       !.searches[si].already_contacted =
                          IF ~InSeq(search_tuple, @) THEN Append(@, search_tuple) ELSE @]
              search == d2.searches[si]
          IN IF Len(search.shortlist) > shortlist_length
             THEN searchIteration(d2, si, FALSE)
             ELSE IF search.callback.kind # "none"
             THEN callback(d2, search.findID, search.callback, "shortlist",
                           search.shortlist)
             ELSE d2

on_findNodeResponse(d, msg) ==
  LET d1 == on_findNodeResponse_peers(d, msg)
  IN IF msg.kind = "foundKey" THEN on_findNodeResponse_foundKey(d1, msg)
     ELSE IF msg.kind = "foundNode" THEN on_findNodeResponse_foundNode(d1, msg)
     ELSE on_findNodeResponse_foundNodes(d1, msg)

(***************************************************************************)
(* DHT.close_nodes and DHT.on_find_node                                    *)
(***************************************************************************)
\* close_nodes that asks the routing table for the closest contacts without
\* naming the sender.
close_nodes_with_sender(d, key, guid) ==
  LET contacts == findCloseNodes(d.routingTable, key, k, None)
  IN dedupe([i \in DOMAIN contacts |->
               <<contacts[i].guid, contacts[i].address, contacts[i].pub,
                 contacts[i].nickname>>])

close_nodes(d, key, guid) ==
  LET contacts == findCloseNodes(d.routingTable, key, k, guid)
  IN dedupe([i \in DOMAIN contacts |->
               <<contacts[i].guid, contacts[i].address, contacts[i].pub,
                 contacts[i].nickname>>])

findNodeResponseMsg(d, findID) ==
  [BaseMsg EXCEPT !.type = "findNodeResponse", !.senderGUID = d.guid,
                  !.senderNick = NickOf(d.guid), !.uri = UriOf(d.guid),
                  !.pubkey = PubOf(d.guid), !.findID = findID]

\* on_find_node without its five assert statements.
on_find_node_unasserted(d, msg) ==
  LET guid == msg.senderGUID
      key == msg.key
      findID == msg.findID
      uri == msg.uri
      new_peer == getContact(d.routingTable, guid)
      reply == findNodeResponseMsg(d, findID)
      foundContact == getContact(d.routingTable, key)
      answer ==
        IF msg.findValue
        THEN IF getItem(d.dataStore, key) # NoValue
             THEN [reply EXCEPT !.kind = "foundKey", !.foundKey = getItem(d.dataStore, key)]
             ELSE [reply EXCEPT !.kind = "foundNodes",
                                !.foundNodes = close_nodes(d, key, guid)]
        ELSE IF foundContact # NoPeer
             THEN [reply EXCEPT !.kind = "foundNode",
                                !.foundNode = <<foundContact.guid, foundContact.address,
                                                foundContact.pub>>]
             ELSE [reply EXCEPT !.kind = "foundNodes",
                                !.foundNodes = close_nodes(d, key, guid)]
  IN IF new_peer = NoPeer THEN d
     ELSE LET d1 == send(d, guid, answer)
          IN IF new_peer.address # uri
             THEN [d1 EXCEPT !.routingTable =
                     addContact(d.guid, removeContact(@, guid),
                                [new_peer EXCEPT !.address = uri])]
             ELSE d1

on_find_node(d, msg) ==
  LET guid == msg.senderGUID
      key == msg.key
      findID == msg.findID
      uri == msg.uri
      new_peer == getContact(d.routingTable, guid)
      reply == findNodeResponseMsg(d, findID)
      foundContact == getContact(d.routingTable, key)
      answer ==
        IF msg.findValue
        THEN IF getItem(d.dataStore, key) # NoValue
             THEN [reply EXCEPT !.kind = "foundKey", !.foundKey = getItem(d.dataStore, key)]
             ELSE [reply EXCEPT !.kind = "foundNodes",
                                !.foundNodes = close_nodes(d, key, guid)]
        ELSE IF foundContact # NoPeer
             THEN [reply EXCEPT !.kind = "foundNode",
                                !.foundNode = <<foundContact.guid, foundContact.address,
                                                foundContact.pub>>]
             ELSE [reply EXCEPT !.kind = "foundNodes",
                                !.foundNodes = close_nodes(d, key, guid)]
  IN IF guid = None \/ guid = d.guid \/ key = None \/ findID = None
        \/ uri = None \/ msg.pubkey = None
     THEN [d EXCEPT !.raised = TRUE]
     ELSE IF new_peer = NoPeer THEN d
     ELSE LET d1 == send(d, guid, answer)
          IN IF new_peer.address # uri
             THEN [d1 EXCEPT !.routingTable =
                     addContact(d.guid, removeContact(@, guid),
                                [new_peer EXCEPT !.address = uri])]
             ELSE d1

(***************************************************************************)
(* DHT._on_storeValue                                                      *)
(***************************************************************************)
\* A handler that acknowledges the message and stores nothing.
on_storeValue_discarding(d, msg) == d

on_storeValue(d, msg) ==
  LET originallyPublished == d.now - msg.age
  IN IF Truthy(msg.value)
     THEN [d EXCEPT !.dataStore = setItem(@, msg.key, msg.value, d.now,
                                          originallyPublished,
                                          msg.originalPublisherID)]
     ELSE d

(***************************************************************************)
(* DHT._threadedRepublishData.  The data store is keyed by hex strings;    *)
(* keys() hands the keys out decoded and the sweep encodes them again.     *)
(***************************************************************************)
HexShift == 9 * N
decode_hex(key) == key + HexShift
encode_hex(raw) == raw - HexShift
keys(ds) == [i \in 1..Cardinality(DOMAIN ds) |-> decode_hex(Ascending(DOMAIN ds)[i])]

RECURSIVE delKeys(_, _, _)
delKeys(ds, expiredKeys, i) ==
  IF i > Len(expiredKeys) THEN ds
  ELSE delKeys(delItem(ds, expiredKeys[i]), expiredKeys, i + 1)

RECURSIVE threadedRepublishData_loop(_, _, _, _)
threadedRepublishData_loop(d, ks, i, expiredKeys) ==
  IF i > Len(ks) THEN [d EXCEPT !.dataStore = delKeys(@, expiredKeys, 1)]
  ELSE LET key == encode_hex(ks[i])
           originalPublisherID == d.dataStore[key].originalPublisherID
           age == d.now - d.dataStore[key].originallyPublished + AgeSkew
       IN IF originalPublisherID = d.guid
          THEN IF age >= dataExpireTimeout
               THEN threadedRepublishData_loop(
                      iterativeStore(d, key, getItem(d.dataStore, key), None, 0),
                      ks, i + 1, expiredKeys)
               ELSE threadedRepublishData_loop(d, ks, i + 1, expiredKeys)
          ELSE IF age >= dataExpireTimeout
               THEN threadedRepublishData_loop(d, ks, i + 1, Append(expiredKeys, key))
               ELSE IF d.now - d.dataStore[key].lastPublished >= replicateInterval
               THEN threadedRepublishData_loop(
                      iterativeStore(d, key, getItem(d.dataStore, key),
                                     originalPublisherID, age),
                      ks, i + 1, expiredKeys)
               ELSE threadedRepublishData_loop(d, ks, i + 1, expiredKeys)

threadedRepublishData(d) == threadedRepublishData_loop(d, keys(d.dataStore), 1, <<>>)

(***************************************************************************)
(* DHT.start                                                               *)
(***************************************************************************)
start(d, seed_peer) ==
  LET ip == hostname(seed_peer.address)
      d1 == add_known_node(d, <<ip, port(seed_peer.address), seed_peer.guid,
                                seed_peer.nickname>>)
      d2 == add_peer(d1, seed_peer.address, seed_peer.pub, seed_peer.guid,
                     seed_peer.nickname)
  IN iterativeFind(d2, d.guid, d2.knownNodes, "findNode", NoCallback)

(***************************************************************************)
(* The lookup engine of one node, Local, in a network whose other nodes    *)
(* are the environment: they answer the probes they are sent.              *)
(***************************************************************************)
\* self._settings['guid'] of the node under study
Local == 0 + 1
PeerGuids == GUIDS \ {Local}

T3(g) == <<IpOf(g), P2PPort, g>>
NodeTuple(g) == <<g, UriOf(g), PubOf(g), NickOf(g)>>

Empty(v) == [n \in GUIDS |-> v]

NoEvent == [type |-> "", node |-> None, findID |-> 0, kind |-> "", late |-> FALSE,
            arg |-> <<>>]
Event(type, n) == [NoEvent EXCEPT !.type = type, !.node = n]

\* A node that has joined the network through the first j peers.
InitJoined(j) ==
  LET ps == FirstPeers(PeerGuids, j)
  IN /\ knownNodes = [Empty(<<>>) EXCEPT ![Local] = [i \in DOMAIN ps |-> T3(ps[i])]]
     /\ activePeers = [Empty(<<>>) EXCEPT ![Local] = [i \in DOMAIN ps |-> CanonPeer(ps[i])]]
     /\ routingTable = [Empty(<<>>) EXCEPT ![Local] = [i \in DOMAIN ps |-> CanonPeer(ps[i])]]
     /\ phase = IF j = 0 THEN "fresh" ELSE "running"

InitRest ==
  /\ searches = Empty(<<>>)
  /\ dataStore = Empty(EmptyStore)
  /\ handshakes = Empty(EmptyBag)
  /\ sent = Empty(<<>>)
  /\ delivered = Empty({})
  /\ received = Empty({})
  /\ cbLog = Empty(<<>>)
  /\ nextFindID = Empty(1)
  /\ terminal = Empty({})
  /\ event = NoEvent
  /\ now = 0

Init == InitRest /\ \E j \in 0..MaxJoined : InitJoined(j)

Step(n, d, ev) ==
  /\ Commit(n, d)
  /\ event' = ev
  /\ UNCHANGED <<terminal, now, received>>

Start(n) ==
  /\ phase = "fresh"
  /\ \E g \in PeerGuids : Step(n, start(D(n), CanonPeer(g)), Event("start", n))
  /\ phase' = "started"

\* The local guid, a peer's guid and a key that is no joined peer's guid.
LookupKeys == {Local, Local + 1, MaxGuid}
ReportGuids == {Local, Local + 1, MaxGuid}
Callbacks == {NoCallback, UserCallback}

FindNode(n) ==
  /\ nextFindID[n] <= MaxSearches
  /\ \E key \in LookupKeys, cb \in Callbacks :
       Step(n, iterativeFindNode(D(n), key, cb), Event("find", n))
  /\ UNCHANGED phase

FindValue(n) ==
  /\ nextFindID[n] <= MaxSearches
  /\ \E key \in LookupKeys, cb \in Callbacks :
       Step(n, iterativeFindValue(D(n), key, cb), Event("find", n))
  /\ UNCHANGED phase

\* _iterativeFind with a startup shortlist: the nodes of a stored list.
StartupLists ==
  {[i \in 1..j |-> T3(FirstPeers(PeerGuids, j)[i])] : j \in 1..MaxStartup}

FindStartup(n) ==
  /\ nextFindID[n] <= MaxSearches
  /\ \E key \in LookupKeys, sl \in StartupLists, call \in {"findNode", "findValue"} :
       Step(n, iterativeFind(D(n), key, sl, call, UserCallback), Event("find", n))
  /\ UNCHANGED phase

\* A pending handshake completes: the transport registers the peer and runs
\* the callback it was given.
HandshakeComplete(n) ==
  /\ \E h \in DOMAIN handshakes[n] :
       LET d0 == [D(n) EXCEPT !.handshakes = BagRemove(@, h)]
           d1 == registerActivePeer(d0, h.peer)
           d2 == IF h.cb THEN add_peer_cb(d1, h.peer) ELSE d1
       IN Step(n, d2, Event("handshake", n))
  /\ UNCHANGED phase

\* check_port() fails or the handshake is never answered.
HandshakeFails(n) ==
  /\ \E h \in DOMAIN handshakes[n] :
       Step(n, [D(n) EXCEPT !.handshakes = BagRemove(@, h)], Event("nohandshake", n))
  /\ UNCHANGED phase

\* What a probed node may answer.
FoundNodesLists ==
  {[i \in DOMAIN Ascending(S) |-> NodeTuple(Ascending(S)[i])] :
     S \in {T \in SUBSET ReportGuids : Cardinality(T) <= MaxFound}}

Payloads ==
  {[BaseMsg EXCEPT !.kind = "foundKey", !.foundKey = Opaque(1)]}
  \cup {[BaseMsg EXCEPT !.kind = "foundNode",
                        !.foundNode = <<g, UriOf(g), PubOf(g)>>] : g \in {Local + 1, MaxGuid}}
  \cup {[BaseMsg EXCEPT !.kind = "foundNodes", !.foundNodes = L] : L \in FoundNodesLists}

Response(probe, payload) ==
  [payload EXCEPT !.type = "findNodeResponse", !.to = probe.senderGUID,
                  !.senderGUID = probe.to, !.senderNick = NickOf(probe.to),
                  !.uri = UriOf(probe.to), !.pubkey = PubOf(probe.to),
                  !.findID = probe.findID]

\* The node probed by sent[n][i] answers; the response is processed.
Reply(n) ==
  /\ \E i \in DOMAIN sent[n], payload \in Payloads :
       /\ sent[n][i].type = "findNode"
       /\ i \notin delivered[n]
       /\ LET msg == Response(sent[n][i], payload)
              d0 == [D(n) EXCEPT !.delivered = @ \cup {i}]
              d1 == on_findNodeResponse(d0, msg)
          IN /\ Commit(n, d1)
             /\ event' = [NoEvent EXCEPT !.type = "response", !.node = n, !.findID = msg.findID,
                                  !.kind = msg.kind, !.late = msg.findID \in terminal[n]]
             /\ terminal' = [terminal EXCEPT ![n] =
                               IF msg.kind \in {"foundKey", "foundNode"} /\ ~d1.raised
                               THEN @ \cup {msg.findID} ELSE @]
  /\ UNCHANGED <<now, phase, received>>

Next ==
  \/ Start(Local)
  \/ FindNode(Local)
  \/ FindValue(Local)
  \/ FindStartup(Local)
  \/ HandshakeComplete(Local)
  \/ HandshakeFails(Local)
  \/ Reply(Local)

Spec == Init /\ [][Next]_vars

(***************************************************************************)
(* Claims about the lookup engine, checked under Spec.                     *)
(***************************************************************************)
GuidsOf(peers) == {peers[i].guid : i \in DOMAIN peers}
Probes(n) == {i \in DOMAIN sent[n] : sent[n][i].type = "findNode"}
CallbackCalls(n, findID) == {i \in DOMAIN cbLog[n] : cbLog[n][i].findID = findID}

\* C1: once a response carrying foundKey or foundNode has been processed for
\* a find_id, the processing of any later response with that find_id invokes
\* no callback, sends no probe and adds no peer to the peer table or to the
\* routing table (it starts no handshake that would add one).
C1_LateResponsesDropped ==
  [][(event'.type = "response" /\ event'.late) =>
       /\ cbLog' = cbLog
       /\ sent' = sent
       /\ handshakes' = handshakes
       /\ GuidsOf(activePeers'[Local]) \subseteq GuidsOf(activePeers[Local])
       /\ GuidsOf(routingTable'[Local]) \subseteq GuidsOf(routingTable[Local])]_vars

\* C2: in a lookup that has seen only foundNodes responses, the callback is
\* handed the shortlist only when no probe of the latest iteration is still
\* unanswered, and no entry joins the shortlist after it was handed over.
C2_CallbackAfterFullIteration ==
  \A i \in DOMAIN cbLog[Local] :
    LET e == cbLog[Local][i]
    IN (e.what = "shortlist" /\ e.findID \notin terminal[Local]) =>
         /\ e.outstanding = 0
         /\ \A j \in DOMAIN searches[Local] :
              searches[Local][j].findID = e.findID =>
                Range(searches[Local][j].shortlist) \subseteq Range(e.arg)

\* C3: a lookup that was given a callback and has sent probes, all of which
\* have been answered, has terminated: its callback was invoked or it left
\* the active-search set.
C3_AnsweredLookupTerminated ==
  \A j \in DOMAIN searches[Local] :
    LET s == searches[Local][j]
    IN (/\ s.callback.kind # "none"
        /\ \E i \in Probes(Local) : sent[Local][i].findID = s.findID
        /\ Outstanding(D(Local), s.findID) = {})
       => CallbackCalls(Local, s.findID) # {}

\* C4: a search never has more than alpha entries in active_probes.
C4_AtMostAlphaActiveProbes ==
  \A j \in DOMAIN searches[Local] : Len(searches[Local][j].active_probes) <= alpha

\* C5: every probe a step sends carries findValue = (call # findNode) of its
\* search.
C5_ProbeCarriesCall ==
  [][\A i \in Probes(Local)' \ Probes(Local) :
       \E j \in DOMAIN searches'[Local] :
          /\ searches'[Local][j].findID = sent'[Local][i].findID
          /\ sent'[Local][i].findValue = (searches'[Local][j].call # "findNode")]_vars

\* C6: after start(seed) and the seed's handshake, the seed is in the routing
\* table and exactly one findNode for the node's own guid has been sent.
C6_BootstrapSendsOneFindNode ==
  (phase = "started" /\ routingTable[Local] # <<>>) =>
     Cardinality({i \in Probes(Local) : sent[Local][i].key = Local}) = 1

(***************************************************************************)
(* A network of three live nodes that know each other.  Every message a   *)
(* node sends is delivered once, in any order, to the handler the          *)
(* protocol dispatcher routes it to.                                       *)
(***************************************************************************)
NodeA == Local
NodeB == Local + 1
NodeC == Local + 3
\* A key that is no node's guid and is closest to NodeC.
KeyH == Local + 4
StoredValues == {Opaque(1), Opaque(2)}
Members == {NodeA, NodeB, NodeC}

InitNet ==
  /\ InitRest
  /\ LET others(n) == Ascending(Members \ {n})
     IN /\ knownNodes = [n \in GUIDS |-> IF n \in Members
                           THEN [i \in DOMAIN others(n) |-> T3(others(n)[i])] ELSE <<>>]
        /\ activePeers = [n \in GUIDS |-> IF n \in Members
                            THEN [i \in DOMAIN others(n) |-> CanonPeer(others(n)[i])]
                            ELSE <<>>]
        /\ routingTable = activePeers
  /\ phase = "idle"

Undelivered(n, type) ==
  {i \in DOMAIN sent[n] : sent[n][i].type = type /\ i \notin received[n]}

NetQuiet == \A n \in GUIDS : \A i \in DOMAIN sent[n] : i \in received[n]

NetStore(n) ==
  /\ phase = "idle"
  /\ \E value \in StoredValues : Commit(n, iterativeStore(D(n), KeyH, value, None, 0))
  /\ phase' = "storing"
  /\ event' = Event("store", n)
  /\ UNCHANGED <<terminal, now, received>>

\* The retrieval starts after the store has completed: its lookup has handed
\* its result over and every message of it has been delivered.
NetRetrieve(n) ==
  /\ phase = "storing"
  /\ NetQuiet
  /\ cbLog[NodeA] # <<>>
  /\ Commit(n, iterativeFindValue(D(n), KeyH, UserCallback))
  /\ phase' = "retrieving"
  /\ event' = Event("find", n)
  /\ UNCHANGED <<terminal, now, received>>

DeliverFindNode(n) ==
  /\ \E i \in Undelivered(n, "findNode") :
       LET msg == sent[n][i]
       IN /\ msg.to \in Members
          /\ Commit(msg.to, on_find_node(D(msg.to), msg))
          /\ received' = [received EXCEPT ![n] = @ \cup {i}]
          /\ event' = Event("findNode", msg.to)
  /\ UNCHANGED <<terminal, now, phase>>

\* The probe a response answers: the oldest unanswered one of its search to
\* the responding node.
ProbeOf(n, msg) ==
  {i \in DOMAIN sent[n] : /\ sent[n][i].type = "findNode"
                          /\ sent[n][i].to = msg.senderGUID
                          /\ sent[n][i].findID = msg.findID
                          /\ i \notin delivered[n]}

DeliverResponse(n) ==
  /\ \E i \in Undelivered(n, "findNodeResponse") :
       LET msg == sent[n][i]
           to == msg.to
           d0 == [D(to) EXCEPT !.delivered =
                     IF ProbeOf(to, msg) = {} THEN @ ELSE @ \cup {MinOf(ProbeOf(to, msg))}]
           d1 == on_findNodeResponse(d0, msg)
       IN /\ to \in Members
          /\ Commit(to, d1)
          /\ received' = [received EXCEPT ![n] = @ \cup {i}]
          /\ event' = [NoEvent EXCEPT !.type = "response", !.node = to, !.findID = msg.findID,
                                  !.kind = msg.kind, !.late = msg.findID \in terminal[to]]
          /\ terminal' = [terminal EXCEPT ![to] =
                            IF msg.kind \in {"foundKey", "foundNode"} /\ ~d1.raised
                            THEN @ \cup {msg.findID} ELSE @]
  /\ UNCHANGED <<now, phase>>

DeliverStore(n) ==
  /\ \E i \in Undelivered(n, "store") :
       LET msg == sent[n][i]
       IN /\ msg.to \in Members
          /\ Commit(msg.to, on_storeValue(D(msg.to), msg))
          /\ received' = [received EXCEPT ![n] = @ \cup {i}]
          /\ event' = Event("storeValue", msg.to)
  /\ UNCHANGED <<terminal, now, phase>>

NextNet ==
  \/ NetStore(NodeA)
  \/ NetRetrieve(NodeB)
  \/ \E n \in Members : DeliverFindNode(n)
  \/ \E n \in Members : DeliverResponse(n)
  \/ \E n \in Members : DeliverStore(n)

SpecNet == InitNet /\ [][NextNet]_vars

\* The value NodeA was asked to store: the one its store lookup's callback holds.
StoredValue == searches[NodeA][1].callback.value

\* C7: once NodeA's iterativeStore of StoredValue under KeyH has completed,
\* NodeC, the node closest to KeyH, holds the value under KeyH, and an
\* iterativeFindValue of KeyH that NodeB starts afterwards hands the value to
\* its callback.
C7_StoredThenFound ==
  /\ (phase # "idle" /\ NetQuiet) =>
        getItem(dataStore[NodeC], KeyH) = StoredValue
  /\ (phase = "retrieving" /\ NetQuiet) =>
        \E i \in DOMAIN cbLog[NodeB] :
           cbLog[NodeB][i].what = "value" /\ cbLog[NodeB][i].arg = StoredValue

\* The store has completed, NodeC holds the value and NodeB's retrieval has
\* handed it to the callback.
C7_Retrieved ==
  /\ phase = "retrieving"
  /\ NetQuiet
  /\ getItem(dataStore[NodeC], KeyH) = StoredValue
  /\ \E i \in DOMAIN cbLog[NodeB] : cbLog[NodeB][i].arg = StoredValue

(***************************************************************************)
(* The value store of one node, Local.  Two writers send it store          *)
(* messages; the node itself publishes values and runs the republish sweep *)
(* as its clock advances.  Probed nodes answer that they know no closer    *)
(* node.                                                                   *)
(***************************************************************************)
MaxInbound == 1
MaxStoreSearches == 2
MaxKeys == 1

Writers == {NodeB, NodeC}
StoreKeys == {KeyH + i : i \in 0..(MaxKeys - 1)}
\* The listing a writer's index operations are about.
ListingOf(w) == w
ClockValues == {0, dataExpireTimeout - 1, dataExpireTimeout}
InboundAges == {0, 0 - AgeSkew}
LocalValues == {Opaque(1), JsonCmd("keyword_index_add", ListingOf(Local))}
WriterValues(w) ==
  {JsonCmd("keyword_index_add", ListingOf(w)), Index("listings", <<ListingOf(w)>>)}

InitStore ==
  /\ InitRest
  /\ \E j \in 0..1 : InitJoined(j)

PutValue(n) ==
  /\ nextFindID[n] <= MaxStoreSearches
  /\ \E key \in StoreKeys, value \in LocalValues :
       Step(n, iterativeStore(D(n), key, value, None, 0), Event("store", n))
  /\ phase' = "local"

WriterSends(w) ==
  /\ Len(sent[w]) < MaxInbound
  /\ \E key \in StoreKeys, value \in WriterValues(w), age \in InboundAges :
       sent' = [sent EXCEPT ![w] =
                  Append(@, [proto_store(key, value, w, age)
                               EXCEPT !.to = Local, !.senderGUID = w])]
  /\ event' = Event("send", w)
  /\ UNCHANGED <<knownNodes, searches, activePeers, routingTable, dataStore,
                 handshakes, delivered, received, cbLog, nextFindID, terminal,
                 now, phase>>

ReplyNone(n) ==
  /\ \E i \in DOMAIN sent[n] :
       /\ sent[n][i].type = "findNode"
       /\ i \notin delivered[n]
       /\ LET msg == Response(sent[n][i], [BaseMsg EXCEPT !.kind = "foundNodes"])
          IN Step(n, on_findNodeResponse([D(n) EXCEPT !.delivered = @ \cup {i}], msg),
                  [NoEvent EXCEPT !.type = "response", !.node = n, !.findID = msg.findID,
                                  !.kind = msg.kind, !.late = FALSE])
  /\ UNCHANGED phase

Tick ==
  /\ \E t \in ClockValues : t > now /\ now' = t
  /\ event' = Event("tick", None)
  /\ UNCHANGED <<knownNodes, searches, activePeers, routingTable, dataStore,
                 handshakes, sent, delivered, received, cbLog, nextFindID, terminal,
                 phase>>

Sweep(n) ==
  /\ nextFindID[n] + Cardinality(DOMAIN dataStore[n]) <= MaxStoreSearches + 1
  /\ Step(n, threadedRepublishData(D(n)), Event("sweep", n))
  /\ phase' = "local"

NextStore ==
  \/ PutValue(Local)
  \/ \E w \in Writers : WriterSends(w)
  \/ \E w \in Writers : DeliverStore(w)
  \/ ReplyNone(Local)
  \/ Tick
  \/ Sweep(Local)

SpecStore == InitStore /\ [][NextStore]_vars

Delivered(w, key, value) ==
  \E i \in received[w] : sent[w][i].key = key /\ sent[w][i].value = value

\* C8: a node that has only processed two inbound store messages for one key,
\* one writer's adding its listing to the keyword index and the other
\* writer's adding another, holds under the key a listings index that
\* contains both listings.
C8_BothListingsMerged ==
  \A key \in StoreKeys :
    (/\ phase # "local"
     /\ Delivered(NodeB, key, JsonCmd("keyword_index_add", ListingOf(NodeB)))
     /\ Delivered(NodeC, key, JsonCmd("keyword_index_add", ListingOf(NodeC))))
    => LET v == getItem(dataStore[Local], key)
       IN /\ v.kind = "dict"
          /\ v.op = "listings"
          /\ {ListingOf(NodeB), ListingOf(NodeC)} \subseteq Range(v.items)

\* The keys a step begins an iterativeStore for.
\* C10: a republish sweep re-stores a key the node published itself exactly
\* when now - originally_published_at >= T_expire.
C10_OwnedRestoredIffExpired ==
  [][event'.type = "sweep" =>
       \A key \in DOMAIN dataStore[Local] :
          dataStore[Local][key].originalPublisherID = Local =>
            ((\E j \in DOMAIN searches'[Local] :
                 /\ searches'[Local][j].findID >= nextFindID[Local]
                 /\ searches'[Local][j].callback.kind = "store"
                 /\ searches'[Local][j].callback.key = key)
             <=> now - dataStore[Local][key].originallyPublished >= dataExpireTimeout)]_vars

(***************************************************************************)
(* The peer table of one node, Local: add_peer calls for two peers, each   *)
(* at its own address, at a new address or at NodeB's address, and the     *)
(* handshakes they start.                                                  *)
(***************************************************************************)
MaxPending == 1
MaxKnown == 3

Pending(n) ==
  LET b == handshakes[n]
      RECURSIVE total(_)
      total(S) == IF S = {} THEN 0
                  ELSE LET x == CHOOSE y \in S : TRUE IN b[x] + total(S \ {x})
  IN total(DOMAIN b)

InitPeers ==
  /\ InitRest
  /\ InitJoined(0)

AddPeer(n) ==
  /\ Pending(n) < MaxPending
  /\ Len(knownNodes[n]) + Pending(n) < MaxKnown
  /\ \E guid \in Writers :
       \E uri \in {UriOf(guid), AltUriOf(guid), UriOf(NodeB)},
          pubkey \in {PubOf(guid), AltPubOf(guid)} :
         Step(n, add_peer(D(n), uri, pubkey, guid, NickOf(guid)),
              [Event("add_peer", n) EXCEPT !.arg = <<uri, pubkey, guid, NickOf(guid)>>])
  /\ UNCHANGED phase

\* The transport reports that the session with the peer at uri has ended.
RemoveActivePeer(n) ==
  /\ \E uri \in {UriOf(NodeB), UriOf(NodeC)} :
       Step(n, remove_active_peer(D(n), uri),
            [Event("remove_active_peer", n) EXCEPT !.arg = <<uri>>])
  /\ UNCHANGED phase

NextPeers ==
  \/ AddPeer(Local)
  \/ RemoveActivePeer(Local)
  \/ HandshakeComplete(Local)
  \/ HandshakeFails(Local)

SpecPeers == InitPeers /\ [][NextPeers]_vars

EntriesOf(peers, guid) == {i \in DOMAIN peers : peers[i].guid = guid}

\* C9: add_peer(u2, p2, g), called when the handshake of an earlier
\* add_peer(u1, p1, g) has completed (the peer table holds one entry for g, no
\* other peer is at u2 and no handshake is pending), leaves exactly one entry
\* for g in the active-peers list and in the routing table: (u2, p2, g).
C9_PartialMatchReplaces ==
  [][(/\ event'.type = "add_peer"
      /\ Cardinality(EntriesOf(activePeers[Local], event'.arg[3])) = 1
      /\ \A i \in DOMAIN activePeers[Local] :
            activePeers[Local][i].address = event'.arg[1]
               => activePeers[Local][i].guid = event'.arg[3]
      /\ handshakes[Local] = EmptyBag)
     => LET upd == Peer(event'.arg[3], event'.arg[1], event'.arg[2], event'.arg[4])
        IN /\ \E i \in DOMAIN activePeers'[Local] :
                /\ EntriesOf(activePeers'[Local], upd.guid) = {i}
                /\ activePeers'[Local][i] = upd
           /\ \E i \in DOMAIN routingTable'[Local] :
                /\ EntriesOf(routingTable'[Local], upd.guid) = {i}
                /\ routingTable'[Local][i] = upd
           /\ handshakes'[Local] = EmptyBag]_vars

\* NodeB, added at its address and then at a new address with a new key.
C9_MovedPeer ==
  /\ event.type = "add_peer"
  /\ event.arg = <<AltUriOf(NodeB), AltPubOf(NodeB), NodeB, NickOf(NodeB)>>
  /\ InSeq(<<hostname(UriOf(NodeB)), port(UriOf(NodeB)), NodeB>>, knownNodes[Local])
  /\ activePeers[Local] = <<Peer(NodeB, AltUriOf(NodeB), AltPubOf(NodeB), NickOf(NodeB))>>
  /\ routingTable[Local] = activePeers[Local]
  /\ handshakes[Local] = EmptyBag

\* C11: a republish sweep deletes a key from the local store exactly when
\* now - originally_published_at >= T_expire and the node is not the key's
\* original publisher.
C11_DeletedIffExpiredReplica ==
  [][event'.type = "sweep" =>
       \A key \in DOMAIN dataStore[Local] :
          (key \notin DOMAIN dataStore'[Local])
          <=> (/\ now - dataStore[Local][key].originallyPublished >= dataExpireTimeout
               /\ dataStore[Local][key].originalPublisherID # Local)]_vars

StoreMessages(n) == {i \in DOMAIN sent[n] : sent[n][i].type = "store"}

\* C12: every store message a node sends for a key goes out after the node
\* wrote that key to its own data store: at the time of the send the local
\* store holds, under the message's key, the value the message carries.
C12_WriteBeforeSend ==
  \A i \in StoreMessages(Local) : sent[Local][i].localCopy = sent[Local][i].value

C12_ReplicaSent ==
  \E i \in StoreMessages(Local) :
     /\ sent[Local][i].to # Local
     /\ sent[Local][i].key \in DOMAIN dataStore[Local]
     /\ \E j \in DOMAIN searches[Local] :
          /\ searches[Local][j].callback.kind = "store"
          /\ searches[Local][j].callback.key = sent[Local][i].key

(***************************************************************************)
(* One node, Local, that publishes values and refreshes its routing        *)
(* table: the lookup behind each iterativeStore is answered by the nodes   *)
(* it probes, and its callback runs storeKeyValue on the list the lookup   *)
(* ends with; the lookups of a refresh have no callback.                   *)
(***************************************************************************)
MaxRefresh == 2

\* DHT._refreshRoutingTable: searchForNextNodeID pops a key, starts its
\* lookup and calls itself.
RECURSIVE searchForNextNodeID(_, _)
searchForNextNodeID(d, nodeIDs) ==
  IF Len(nodeIDs) > 0
  THEN LET searchID == nodeIDs[Len(nodeIDs)]
       IN searchForNextNodeID(iterativeFindNode(d, searchID, NoCallback),
                              SubSeq(nodeIDs, 1, Len(nodeIDs) - 1))
  ELSE d

refreshRoutingTable(d, nodeIDs) == searchForNextNodeID(d, nodeIDs)

\* routingTable.getRefreshList(0, False): one key of every stale bucket.
getRefreshList ==
  UNION {{ks \in [1..len -> {Local + 1, MaxGuid, KeyH}] : \A a, b \in 1..len : a # b => ks[a] # ks[b]} :
           len \in 1..MaxRefresh}

InitPublish == InitRest /\ \E j \in 1..MaxJoined : InitJoined(j)

\* The key is a contact's guid or a key that is no node's guid.
Publish(n) ==
  /\ nextFindID[n] <= MaxSearches
  /\ \E key \in {Local + 1, KeyH},
          value \in {Opaque(1), JsonCmd("keyword_index_add", ListingOf(Local)),
                     JsonCmd("keyword_index_remove", ListingOf(Local))} :
       Step(n, iterativeStore(D(n), key, value, None, 0), Event("store", n))
  /\ UNCHANGED phase

NextPublish ==
  \/ Publish(Local)
  \/ Reply(Local)
  \/ HandshakeComplete(Local)
  \/ HandshakeFails(Local)

SpecPublish == InitPublish /\ [][NextPublish]_vars

\* C13: when the lookup behind an iterativeStore hands its node list to
\* storeKeyValue and the value is not a removal that is dropped, the step
\* sends a store{key, value, originalPublisherID, age} message to every node
\* of the list whose guid is not the local guid; the list holds no entry
\* with the local guid, so the loop never stops short at one.
C13_StoreToEveryListedNode ==
  [][\A c \in (DOMAIN cbLog'[Local]) \ (DOMAIN cbLog[Local]),
        j \in DOMAIN searches[Local] :
       LET e == cbLog'[Local][c]
           cb == searches[Local][j].callback
           m == storeKeyValue_merge(dataStore[Local], cb.key, cb.value)
       IN (/\ searches[Local][j].findID = e.findID
           /\ cb.kind = "store"
           /\ e.what = "shortlist"
           /\ ~m.ret)
          => \A x \in DOMAIN e.arg :
               /\ e.arg[x][3] # Local
               /\ \E i \in StoreMessages(Local)' \ StoreMessages(Local) :
                    /\ sent'[Local][i].to = e.arg[x][3]
                    /\ sent'[Local][i].key = cb.key
                    /\ sent'[Local][i].value = m.value
                    /\ sent'[Local][i].originalPublisherID = cb.originalPublisherID
                    /\ sent'[Local][i].age = cb.age]_vars

C13_ListOfSeveralNodes ==
  /\ event.type = "response"
  /\ \E c \in DOMAIN cbLog[Local], j \in DOMAIN searches[Local] :
       /\ searches[Local][j].findID = cbLog[Local][c].findID
       /\ searches[Local][j].callback.kind = "store"
       /\ cbLog[Local][c].what = "shortlist"
       /\ Len(cbLog[Local][c].arg) >= 3
       /\ \E x \in DOMAIN cbLog[Local][c].arg :
            getContact(routingTable[Local], cbLog[Local][c].arg[x][3]) = NoPeer
       /\ Cardinality({sent[Local][i].to : i \in StoreMessages(Local)})
            = Len(cbLog[Local][c].arg)

\* The periodic refresh of a node whose probes are answered with no closer
\* node.
Refresh(n) ==
  /\ nextFindID[n] <= MaxStoreSearches
  /\ \E nodeIDs \in getRefreshList :
       Step(n, refreshRoutingTable(D(n), nodeIDs), Event("refresh", n))
  /\ UNCHANGED phase

NextRefresh ==
  \/ Refresh(Local)
  \/ ReplyNone(Local)

SpecRefresh == InitPublish /\ [][NextRefresh]_vars

\* C14: a step starts the lookup of a refresh key only when no earlier
\* refresh lookup is unfinished: every earlier lookup without a callback has
\* left the active-search set or has no probe that is still unanswered.
C14_RefreshLookupsOneAtATime ==
  [][\A a, b \in DOMAIN searches'[Local] :
       (/\ searches'[Local][a].callback.kind = "none"
        /\ searches'[Local][b].callback.kind = "none"
        /\ searches'[Local][a].findID < searches'[Local][b].findID
        /\ searches'[Local][b].findID >= nextFindID[Local])
       => Outstanding(D(Local)', searches'[Local][a].findID) = {}]_vars

(***************************************************************************)
(* The index stored under one key of one node, Local: the key holds no     *)
(* value or an index, and the node publishes index commands for it; the    *)
(* one node each lookup probes answers that it knows no closer node.       *)
(***************************************************************************)
MaxElems == 2
MaxOps == 2

Elems == 1..MaxElems
\* The indexes index commands build: lists without repetition.
StoredIndexes ==
  {Index(field, items) :
     field \in {"notaries", "listings"},
     items \in UNION {{s \in [1..len -> Elems] : \A a, b \in 1..len : a # b => s[a] # s[b]} :
                        len \in 0..MaxElems}}

\* The index was stored at time 0; the commands are processed later.
InitIndex ==
  /\ InitJoined(1)
  /\ searches = Empty(<<>>)
  /\ \E ds \in {EmptyStore}
           \cup {setItem(EmptyStore, KeyH, v, 0, 0, Local) : v \in StoredIndexes} :
       dataStore = [Empty(EmptyStore) EXCEPT ![Local] = ds]
  /\ handshakes = Empty(EmptyBag)
  /\ sent = Empty(<<>>)
  /\ delivered = Empty({})
  /\ received = Empty({})
  /\ cbLog = Empty(<<>>)
  /\ nextFindID = Empty(1)
  /\ terminal = Empty({})
  /\ event = NoEvent
  /\ now = 1

IndexOp(n) ==
  /\ nextFindID[n] <= MaxOps
  /\ \E op \in {"notary_index_add", "notary_index_remove",
                  "keyword_index_add", "keyword_index_remove"}, e \in Elems :
       Step(n, iterativeStore(D(n), KeyH, JsonCmd(op, e), None, 0), Event("store", n))
  /\ UNCHANGED phase

NextIndex ==
  \/ IndexOp(Local)
  \/ ReplyNone(Local)

SpecIndex == InitIndex /\ [][NextIndex]_vars

\* C15: a notary_index_add (keyword_index_add) command that storeKeyValue
\* processes for a key holding no value or an index of the command's kind
\* leaves under the key an index of that kind with the added element and every
\* element held before, each once; and from every store reached, two such
\* additions leave the same set of elements in either order.
C15_AddsAccumulate ==
  [][/\ \A c \in (DOMAIN cbLog'[Local]) \ (DOMAIN cbLog[Local]),
           j \in DOMAIN searches'[Local] :
          LET cb == searches'[Local][j].callback
              field == IndexField(cb.value.op)
              old == getItem(dataStore[Local], cb.key)
              new == getItem(dataStore'[Local], cb.key)
          IN (/\ searches'[Local][j].findID = cbLog'[Local][c].findID
              /\ cb.kind = "store"
              /\ cb.value.op \in {"notary_index_add", "keyword_index_add"}
              /\ old = NoValue \/ (old.kind = "dict" /\ old.op = field))
             => /\ new.kind = "dict" /\ new.op = field
                /\ Range(new.items) = Range(old.items) \cup {cb.value.elem}
                /\ Len(new.items) = Cardinality(Range(new.items))
     /\ \A op \in {"notary_index_add", "keyword_index_add"}, e1, e2 \in Elems :
          LET old == getItem(dataStore[Local], KeyH)
              after(ds, e) == storeKeyValue([D(Local) EXCEPT !.dataStore = ds], <<>>, KeyH,
                                            JsonCmd(op, e), Local, 0).dataStore
          IN (old = NoValue \/ (old.kind = "dict" /\ old.op = IndexField(op)))
             => Range(getItem(after(after(dataStore[Local], e1), e2), KeyH).items)
                = Range(getItem(after(after(dataStore[Local], e2), e1), KeyH).items)]_vars

C15_TwoAdded ==
  /\ event.type = "response"
  /\ Len(cbLog[Local]) = 2
  /\ \A j \in DOMAIN searches[Local] :
       searches[Local][j].callback.value.op = "notary_index_add"
  /\ \E a, b \in DOMAIN searches[Local] :
       searches[Local][a].callback.value.elem # searches[Local][b].callback.value.elem
  /\ getItem(dataStore[Local], KeyH).op = "notaries"
  /\ Len(getItem(dataStore[Local], KeyH).items) = 2

\* C16: an index remove that storeKeyValue processes for a key holding no
\* value, or an index of the command's kind without the element, changes
\* neither the stored value nor its metadata and sends no store message; and
\* from every store reached, applying a remove twice leaves the store that
\* applying it once leaves.
C16_AbsentRemoveDropped ==
  [][/\ \A c \in (DOMAIN cbLog'[Local]) \ (DOMAIN cbLog[Local]),
           j \in DOMAIN searches'[Local] :
          LET cb == searches'[Local][j].callback
              old == getItem(dataStore[Local], cb.key)
          IN (/\ searches'[Local][j].findID = cbLog'[Local][c].findID
              /\ cb.kind = "store"
              /\ cb.value.op \in {"notary_index_remove", "keyword_index_remove"}
              /\ \/ old = NoValue
                 \/ /\ old.kind = "dict" /\ old.op = IndexField(cb.value.op)
                    /\ ~InSeq(cb.value.elem, old.items))
             => /\ dataStore'[Local] = dataStore[Local]
                /\ StoreMessages(Local)' = StoreMessages(Local)
     /\ \A op \in {"notary_index_remove", "keyword_index_remove"}, e \in Elems :
          LET after(ds) == storeKeyValue([D(Local) EXCEPT !.dataStore = ds], <<>>, KeyH,
                                         JsonCmd(op, e), Local, 0).dataStore
          IN after(after(dataStore[Local])) = after(dataStore[Local])]_vars

C16_RemovedTwice ==
  /\ event.type = "response"
  /\ Len(cbLog[Local]) = 2
  /\ \A j \in DOMAIN searches[Local] :
       searches[Local][j].callback.value = JsonCmd("keyword_index_remove", 1)
  /\ getItem(dataStore[Local], KeyH) = Index("listings", <<2>>)
  /\ Cardinality(StoreMessages(Local)) = 1

(***************************************************************************)
(* One node, Local, that serves the lookups of others and runs its own:    *)
(* peers write a value to it and send it findNode messages, and the nodes  *)
(* it probes answer with responses that name the node itself.              *)
(***************************************************************************)
MaxServed == 1

\* An inbound findNode message is dispatched to on_find_node.  The key is a
\* contact's guid, a guid that is no contact's, or the key peers write; the
\* message may lack one of the fields the handler asserts.
Probe(n) ==
  /\ Cardinality({i \in DOMAIN sent[n] : sent[n][i].type = "findNodeResponse"}) < MaxServed
  /\ \E lacking \in {"", "key", "findID", "uri", "pubkey"}, guid \in GUIDS :
       \E key \in IF lacking = "" THEN {Local + 1, MaxGuid, KeyH} ELSE {KeyH},
          findValue \in IF lacking = "" THEN BOOLEAN ELSE {TRUE},
          uri \in IF lacking = "" THEN {UriOf(guid), AltUriOf(guid)} ELSE {UriOf(guid)} :
          LET msg == [BaseMsg EXCEPT
                        !.type = "findNode", !.to = n, !.senderGUID = guid,
                        !.senderNick = NickOf(guid),
                        !.uri = IF lacking = "uri" THEN None ELSE uri,
                        !.pubkey = IF lacking = "pubkey" THEN None ELSE PubOf(guid),
                        !.key = IF lacking = "key" THEN None ELSE key,
                        !.findValue = findValue,
                        !.findID = IF lacking = "findID" THEN None ELSE 1]
          IN Step(n, on_find_node(D(n), msg),
                  [Event("findNode", n) EXCEPT !.arg = <<guid, key, findValue, lacking>>])
  /\ UNCHANGED phase

\* The node probed by sent[n][i] answers with a response that names the
\* probing node: as the found node, under its own address or a contact's,
\* or among the found nodes.
ReplyNamingSelf(n) ==
  /\ \E i \in DOMAIN sent[n],
          payload \in {[BaseMsg EXCEPT !.kind = "foundNode",
                                       !.foundNode = <<Local, uri, PubOf(Local)>>] :
                         uri \in {UriOf(Local), UriOf(0)}}
                      \cup {[BaseMsg EXCEPT !.kind = "foundNodes", !.foundNodes = L] :
                              L \in {<<NodeTuple(Local)>>,
                                     <<NodeTuple(MaxGuid), NodeTuple(Local)>>,
                                     <<<<Local, AltUriOf(Local), AltPubOf(Local),
                                         NickOf(Local)>>>>}} :
       /\ sent[n][i].type = "findNode"
       /\ i \notin delivered[n]
       /\ LET msg == Response(sent[n][i], payload)
              d1 == on_findNodeResponse([D(n) EXCEPT !.delivered = @ \cup {i}], msg)
          IN /\ Commit(n, d1)
             /\ event' = [NoEvent EXCEPT !.type = "response", !.node = n,
                                         !.findID = msg.findID, !.kind = msg.kind,
                                         !.late = msg.findID \in terminal[n]]
             /\ terminal' = [terminal EXCEPT ![n] =
                               IF msg.kind = "foundNode" /\ ~d1.raised
                               THEN @ \cup {msg.findID} ELSE @]
  /\ UNCHANGED <<now, phase, received>>

\* The node serves lookups for the key peers have written to it.
NextServe ==
  \/ \E w \in Writers : WriterSends(w)
  \/ \E w \in Writers : DeliverStore(w)
  \/ Probe(Local)

SpecServe == InitPublish /\ [][NextServe]_vars

\* The node serves lookups and runs its own, which are answered with
\* responses that name it.
NextNamed ==
  \/ Probe(Local)
  \/ FindNode(Local)
  \/ ReplyNamingSelf(Local)
  \/ HandshakeComplete(Local)
  \/ HandshakeFails(Local)

SpecNamed == InitPublish /\ [][NextNamed]_vars

\* C17: an inbound findNode that carries its required fields and whose
\* sender is a routing-table contact adds exactly one message to what the node has sent, a findNodeResponse to the
\* sender: with foundKey when findValue is set and the key is in the local
\* store, with foundNode when findValue is not set and the key is a contact's
\* guid, and otherwise with foundNodes, at most k contacts, none with the
\* sender's guid and none farther from the key than a contact left out.
C17_OneResponseToKnownSender ==
  [][event'.type = "findNode" =>
       LET guid == event'.arg[1]
           key == event'.arg[2]
           findValue == event'.arg[3]
           rt == routingTable[Local]
           Contacts == {rt[c].guid : c \in DOMAIN rt}
           new == (DOMAIN sent'[Local]) \ (DOMAIN sent[Local])
       IN (guid \in Contacts /\ event'.arg[4] = "") =>
            /\ Cardinality(new) = 1
            /\ \A i \in new :
                 LET m == sent'[Local][i]
                     Listed == {m.foundNodes[x][1] : x \in DOMAIN m.foundNodes}
                 IN /\ m.type = "findNodeResponse" /\ m.to = guid /\ m.findID = 1
                    /\ IF findValue /\ key \in DOMAIN dataStore[Local]
                       THEN m.kind = "foundKey" /\ m.foundKey = dataStore[Local][key].value
                       ELSE IF ~findValue /\ key \in Contacts
                       THEN m.kind = "foundNode" /\ m.foundNode[1] = key
                       ELSE /\ m.kind = "foundNodes"
                            /\ Len(m.foundNodes) <= k
                            /\ Cardinality(Listed) = Len(m.foundNodes)
                            /\ Listed \subseteq Contacts \ {guid}
                            /\ \A c \in Contacts \ (Listed \cup {guid}) :
                                 /\ Len(m.foundNodes) = k
                                 /\ \A g \in Listed : distance(g, key) <= distance(c, key)]_vars

C17_SeveralFoundNodes ==
  /\ event.type = "findNode"
  /\ sent[Local] # <<>>
  /\ sent[Local][Len(sent[Local])].kind = "foundNodes"
  /\ Len(sent[Local][Len(sent[Local])].foundNodes) >= 2
  /\ dataStore[Local] # EmptyStore

(***************************************************************************)
(* The end of a search, checked under Spec.                                *)
(***************************************************************************)
\* C18: once a search has been removed from the active-search set (its
\* find_id was ended by a foundKey or foundNode response, or no search
\* carries it any more), no step sends a findNode probe with that find_id
\* or invokes the search's callback.
C18_RemovedSearchStaysSilent ==
  [][\A f \in 1..(nextFindID[Local] - 1) :
       (f \in terminal[Local] \/ \A j \in DOMAIN searches[Local] : searches[Local][j].findID # f)
       => /\ \A i \in Probes(Local)' \ Probes(Local) : sent'[Local][i].findID # f
          /\ CallbackCalls(Local, f)' = CallbackCalls(Local, f)]_vars

C18_ResponseAfterRemoval ==
  /\ event.type = "response"
  /\ event.kind = "foundNodes"
  /\ event.late
  /\ event.findID \in terminal[Local]
  /\ \A j \in DOMAIN searches[Local] : searches[Local][j].findID # event.findID
  /\ CallbackCalls(Local, event.findID) # {}

C20_KnownNodesDistinct ==
  \A i, j \in DOMAIN knownNodes[Local] :
     knownNodes[Local][i] = knownNodes[Local][j] => i = j

(***************************************************************************)
(* DHT.dedupe applied to lists of tuples: the list handed in and the list  *)
(* returned are recorded in the step's event.                              *)
(***************************************************************************)
MaxArity == 3
MaxItems == 2

Dedupe ==
  /\ \E len \in 0..MaxItems :
       \E arity \in [1..len -> 1..MaxArity] :
          \E lst \in {l \in [1..len -> UNION {[1..a -> 1..2] : a \in 1..MaxArity}] :
                        \A i \in 1..len : Len(l[i]) = arity[i]} :
             event' = [Event("dedupe", Local) EXCEPT !.arg = <<lst, dedupe(lst)>>]
  /\ UNCHANGED <<knownNodes, searches, activePeers, routingTable, dataStore,
                 handshakes, sent, delivered, received, cbLog, nextFindID, terminal,
                 now, phase>>

SpecDedupe == InitPeers /\ [][Dedupe]_vars

\* C21: dedupe(lst) returns the items of lst in their order, leaving out
\* exactly the items whose multiset of components is that of an earlier item.
C21_DedupeByComponentMultiset ==
  event.type = "dedupe" =>
    LET lst == event.arg[1]
        count(item, c) == Cardinality({p \in DOMAIN item : item[p] = c})
        same(a, b) == \A c \in 1..2 : count(a, c) = count(b, c)
        kept == {i \in DOMAIN lst : \A j \in 1..(i - 1) : ~same(lst[j], lst[i])}
        pick == Ascending(kept)
    IN event.arg[2] = [p \in DOMAIN pick |-> lst[pick[p]]]


\* C22: for every search, every node a findNode probe of the search was sent
\* to is in already_contacted, and the search has sent no more probes than
\* already_contacted has entries.
C22_ProbedNodesAreContacted ==
  \A j \in DOMAIN searches[Local] :
    LET s == searches[Local][j]
        probes == {i \in Probes(Local) : sent[Local][i].findID = s.findID}
    IN /\ \A i \in probes :
            \E c \in DOMAIN s.already_contacted :
               s.already_contacted[c][3] = sent[Local][i].to
       /\ Cardinality(probes) <= Len(s.already_contacted)

\* A search that has probed in a second iteration.
C22_ProbedInTwoIterations ==
  \E j \in DOMAIN searches[Local] :
    LET s == searches[Local][j]
    IN /\ s.iterMark > 0
       /\ \E i \in Probes(Local) : i > s.iterMark /\ sent[Local][i].findID = s.findID


\* C23: whenever a callback is invoked with a shortlist, the entries of the
\* shortlist are in non-decreasing XOR distance of their guid to the key of
\* the search.
C23_ShortlistHandedOverSorted ==
  [][\A i \in DOMAIN cbLog'[Local] \ DOMAIN cbLog[Local] :
       LET e == cbLog'[Local][i]
       IN e.what = "shortlist" =>
            \A s \in Range(searches[Local]) \cup Range(searches'[Local]) :
               s.findID = e.findID =>
                 \A x, y \in DOMAIN e.arg :
                    x < y => distance(e.arg[x][3], s.key) <= distance(e.arg[y][3], s.key)]_vars

\* A shortlist of three nodes was handed over at convergence.
C23_ThreeNodesHandedOver ==
  \E i \in DOMAIN cbLog[Local] :
    /\ cbLog[Local][i].what = "shortlist"
    /\ Len(cbLog[Local][i].arg) >= 3
    /\ event.type = "response"


(***************************************************************************)
(* DHT._refreshNode, the periodic maintenance call, on a node that stores  *)
(* two keys.  The environment may make one refresh lookup or the           *)
(* processing of one stored key raise (a failing send or a failing read of *)
(* the data store): nothing in _refreshNode, _refreshRoutingTable or       *)
(* _threadedRepublishData catches an exception, so what was done before    *)
(* the failing item stays done, nothing after it runs, and the exception   *)
(* leaves _refreshNode.  event.arg records <<position of the failing item, *)
(* whether an exception left _refreshNode>>.                               *)
(***************************************************************************)
RefreshNode(n) ==
  /\ nextFindID[n] <= MaxSearches
  /\ \E nodeIDs \in getRefreshList :
       LET ks == keys(dataStore[n])
           last == Len(nodeIDs)
       IN \E fault \in {<<"none", 0>>}
                         \cup {<<"lookup", p>> : p \in 1..last}
                         \cup {<<"key", q>> : q \in 1..Len(ks)} :
            LET d1 == IF fault[1] = "lookup"
                      THEN searchForNextNodeID(D(n), SubSeq(nodeIDs, last - fault[2] + 2, last))
                      ELSE refreshRoutingTable(D(n), nodeIDs)
                d2 == IF fault[1] = "none" THEN threadedRepublishData(d1)
                      ELSE IF fault[1] = "lookup" THEN d1
                      ELSE threadedRepublishData_loop(d1, SubSeq(ks, 1, fault[2] - 1), 1, <<>>)
                \* "for key in expiredKeys" is not reached after an exception
                d3 == IF fault[1] # "key" THEN d2
                      ELSE [d2 EXCEPT !.dataStore =
                              [x \in DOMAIN d1.dataStore |->
                                 IF x \in DOMAIN @ THEN @[x] ELSE d1.dataStore[x]]]
            IN Step(n, d3, [Event("refreshNode", n) EXCEPT
                              !.kind = fault[1],
                              !.arg = <<fault[2], fault[1] # "none">>])
  /\ UNCHANGED phase

InitMaintain ==
  /\ InitJoined(1)
  /\ searches = Empty(<<>>)
  /\ \E p1, p2 \in {Local, NodeB} :
       dataStore = [Empty(EmptyStore) EXCEPT
                      ![Local] = setItem(setItem(EmptyStore, KeyH, Opaque(1), 0, 0, p1),
                                         KeyH + 1, Opaque(1), 0, 0, p2)]
  /\ handshakes = Empty(EmptyBag)
  /\ sent = Empty(<<>>)
  /\ delivered = Empty({})
  /\ received = Empty({})
  /\ cbLog = Empty(<<>>)
  /\ nextFindID = Empty(1)
  /\ terminal = Empty({})
  /\ event = NoEvent
  /\ now = 0

SpecMaintain == InitMaintain /\ [][RefreshNode(Local) \/ ReplyNone(Local)]_vars

\* C24: when one refresh lookup or one key of the republish sweep fails with
\* an error, no exception leaves _refreshNode and every other stored key is
\* still processed by the sweep: deleted if it is an expired replica,
\* re-stored if it is an expired key of the node's own.
C24_FailureStaysInsideSweep ==
  [][(event'.type = "refreshNode" /\ event'.kind # "none") =>
       /\ ~event'.arg[2]
       /\ LET ks == keys(dataStore[Local])
          IN \A q \in DOMAIN ks :
               LET key == encode_hex(ks[q])
                   age == now - dataStore[Local][key].originallyPublished + AgeSkew
               IN (~(event'.kind = "key" /\ event'.arg[1] = q) /\ age >= dataExpireTimeout) =>
                    IF dataStore[Local][key].originalPublisherID = Local
                    THEN \E j \in DOMAIN searches'[Local] :
                           /\ searches'[Local][j].callback.kind = "store"
                           /\ searches'[Local][j].key = key
                    ELSE key \notin DOMAIN dataStore'[Local]]_vars


\* C25: an inbound findNode whose sender guid is the local guid or has no
\* contact in the routing table, or that lacks key, findID, uri or pubkey,
\* is dropped: the step sends nothing and leaves the routing table, the peer
\* table and the local store as they were.
C25_BadProbeDropped ==
  [][(/\ event'.type = "findNode"
      /\ \/ event'.arg[1] = Local
         \/ getContact(routingTable[Local], event'.arg[1]) = NoPeer
         \/ event'.arg[4] # "")
     => /\ sent'[Local] = sent[Local]
        /\ routingTable'[Local] = routingTable[Local]
        /\ activePeers'[Local] = activePeers[Local]
        /\ dataStore'[Local] = dataStore[Local]]_vars

\* A contact asked for a stored key in a message that lacks the pubkey.
C25_ContactProbeLackingField ==
  /\ event.type = "findNode"
  /\ event.arg[4] = "pubkey"
  /\ getContact(routingTable[Local], event.arg[1]) # NoPeer
  /\ getItem(dataStore[Local], event.arg[2]) # NoValue


\* C26: the callback of a search is invoked at most once over the life of
\* the search, whatever responses arrive for its find_id and in whatever
\* order.
C26_CallbackAtMostOnce ==
  \A c1, c2 \in DOMAIN cbLog[Local] :
    cbLog[Local][c1].findID = cbLog[Local][c2].findID => c1 = c2


\* C27: within one search no node, identified by its guid, is sent a
\* findNode probe more than once.
C27_OneProbePerNode ==
  \A a, b \in Probes(Local) :
    (sent[Local][a].findID = sent[Local][b].findID /\ sent[Local][a].to = sent[Local][b].to)
      => a = b



(***************************************************************************)
(* Lookups of a node with alpha or more contacts whose probes are answered *)
(* with foundNodes lists naming no node, every other peer, or every peer   *)
(* including the answering node: nodes the asking node already has as      *)
(* contacts.                                                               *)
(***************************************************************************)
InitWide == InitRest /\ \E j \in alpha..MaxGuid : InitJoined(j)

ReplyWide(n) ==
  /\ \E i \in DOMAIN sent[n] : \E S \in {{}, PeerGuids \ {sent[n][i].to}, PeerGuids} :
       /\ sent[n][i].type = "findNode"
       /\ i \notin delivered[n]
       /\ LET L == [x \in DOMAIN Ascending(S) |-> NodeTuple(Ascending(S)[x])]
              msg == Response(sent[n][i],
                              [BaseMsg EXCEPT !.kind = "foundNodes", !.foundNodes = L])
          IN Step(n, on_findNodeResponse([D(n) EXCEPT !.delivered = @ \cup {i}], msg),
                  [NoEvent EXCEPT !.type = "response", !.node = n, !.findID = msg.findID,
                                  !.kind = msg.kind, !.late = FALSE])
  /\ UNCHANGED phase

SpecWide == InitWide /\ [][FindNode(Local) \/ FindStartup(Local) \/ ReplyWide(Local)]_vars

\* C28: each execution of _searchIteration sends at most alpha findNode
\* messages, in every iteration of a search.
C28_AtMostAlphaPerIteration ==
  [][Cardinality(Probes(Local)' \ Probes(Local)) <= alpha]_vars

\* C29: for every search, the nodes in active_probes are exactly the nodes a
\* findNode of the search was sent to and whose response has not been
\* processed yet.
C29_ActiveProbesAreOutstanding ==
  \A j \in DOMAIN searches[Local] :
    LET s == searches[Local][j]
    IN {s.active_probes[i][3] : i \in DOMAIN s.active_probes}
         = {sent[Local][i].to : i \in Outstanding(D(Local), s.findID)}


\* C30: the active-search set holds only searches still in progress: a
\* search whose initialization aborted (the key is the local guid or an
\* active peer's guid, or the shortlist is empty) and a search whose callback
\* was handed the shortlist on convergence are not in _searches.
C30_OnlySearchesInProgress ==
  \A j \in DOMAIN searches[Local] :
    LET s == searches[Local][j]
    IN /\ ~(s.call = "findNode" /\ s.key = Local)
       /\ ~(s.call = "findNode" /\ s.key \in GuidsOf(activePeers[Local])
              /\ s.shortlist = <<>>)
       /\ s.shortlist # <<>>
       /\ \A c \in CallbackCalls(Local, s.findID) : cbLog[Local][c].what # "shortlist"


\* C31: when the republish sweep replicates a value whose original publisher
\* is another node, the write of the replication leaves the value's original
\* publisher and its originally_published_at in the local store as they
\* were.
C31_ReplicationKeepsOrigin ==
  [][\A c \in (DOMAIN cbLog'[Local]) \ (DOMAIN cbLog[Local]),
        j \in DOMAIN searches'[Local] :
       LET cb == searches'[Local][j].callback
           ds == dataStore[Local]
       IN (/\ searches'[Local][j].findID = cbLog'[Local][c].findID
           /\ cb.kind = "store"
           /\ cb.originalPublisherID # Local
           /\ cb.key \in DOMAIN ds
           /\ ds[cb.key].originalPublisherID = cb.originalPublisherID)
          => /\ cb.key \in DOMAIN dataStore'[Local]
             /\ dataStore'[Local][cb.key].originalPublisherID = ds[cb.key].originalPublisherID
             /\ dataStore'[Local][cb.key].originallyPublished
                  = ds[cb.key].originallyPublished]_vars


\* C32: after remove_active_peer(uri) no entry of the active-peers list has
\* address uri, and every entry with another address is still in the list.
C32_RemovedByAddress ==
  [][event'.type = "remove_active_peer" =>
       /\ \A i \in DOMAIN activePeers'[Local] :
            activePeers'[Local][i].address # event'.arg[1]
       /\ \A i \in DOMAIN activePeers[Local] :
            activePeers[Local][i].address # event'.arg[1]
              => InSeq(activePeers[Local][i], activePeers'[Local])]_vars


\* C33: an add_peer call on an active-peers list whose guids are pairwise
\* distinct and whose addresses are pairwise distinct leaves a list in which
\* no two entries share a guid and no two share an address.
C33_AddPeerKeepsDistinct ==
  [][LET Distinct(ap) ==
           \A a, b \in DOMAIN ap :
              (ap[a].guid = ap[b].guid \/ ap[a].address = ap[b].address) => a = b
     IN (event'.type = "add_peer" /\ Distinct(activePeers[Local]))
          => Distinct(activePeers'[Local])]_vars


(***************************************************************************)
(* The running application: MarketApplication.__init__ joins the network   *)
(* (Start) and the event loop then serves whatever arrives: handshakes     *)
(* complete or fail, probes are answered, lookups are started on request.  *)
(* The event loop does not starve a step that stays possible.              *)
(* _refreshNode has one caller, the local function post_joined of          *)
(* MarketApplication.__init__, which __init__ neither calls nor hands to   *)
(* join_network or to a timer: no step of the application is RefreshNode.  *)
(***************************************************************************)
SpecLive == Spec /\ WF_vars(Next)

\* C34: once the node has joined the network, _refreshNode is eventually
\* run, and after every moment it is eventually run again.
C34_RefreshRunsAgainAndAgain ==
  /\ (phase \in {"started", "running"}) ~> (event.type = "refreshNode")
  /\ []((phase \in {"started", "running"}) => []<>(event.type = "refreshNode"))

====
